---- MODULE Spec2Model ----
(***************************************************************************)
(* Model of the challenge orchestrator                                     *)
(* src/cli_hunt/python_orchestrator/main.py: the persisted store           *)
(* (challenges.json), and the three commands init_db, fetch_challenges and *)
(* solve_challenges, each a load / per-item loop / save pass.              *)
(*                                                                         *)
(* JSON values are modelled as follows.  A challengeId is a positive       *)
(* integer (the code sorts by it; Python's string order is the integer     *)
(* order here).  A key that is absent from a JSON object is a sentinel     *)
(* value of the field (NoId, NoStatus, NoTime, NoSalt, NoHash).  A         *)
(* latestSubmission that datetime.fromisoformat cannot turn into an aware  *)
(* timestamp is BadTime.  A Python dict is a sequence of entries in        *)
(* insertion order, the order dict iteration and json.dump use.            *)
(***************************************************************************)
EXTENDS Integers, Sequences, FiniteSets, TLC

\* ------------------------------------------------------------------ bounds
MaxId == 2          \* challenge ids are 1..MaxId
MaxTime == 2        \* the clock runs 0..MaxTime
MaxCmds == 3        \* commands started in one behaviour
Deadline == 1       \* the latestSubmission of well-formed challenges
MaxNonce == 1       \* the solver prints a nonce in 1..MaxNonce

\* ------------------------------------------------------- values of fields
NoId == 0           \* record without a "challengeId" key
NoTime == 0 - 1     \* record without a "solvedAt" key
BadTime == 0 - 2    \* latestSubmission that does not parse to an aware time
NoSalt == 0         \* record without a "salt" key
NoHash == 0         \* record without a "hash" key
NoStatus == "missing"   \* record without a "status" key
NoAddr == "none"        \* receipt without registration_receipt.walletAddress

Addresses == {"a1", "a2"}
Ids == 1..MaxId
Nonces == 1..MaxNonce
Hashes == {1}

Rec(id, st, ls) ==
    [challengeId |-> id, status |-> st, latestSubmission |-> ls,
     solvedAt |-> NoTime, salt |-> NoSalt, hash |-> NoHash]

\* ------------------------------------------------------------ the store
\* The document challenges.json: absent, not decodable, or a whole dict.
NoFile == [kind |-> "nofile", db |-> << >>]
Corrupt == [kind |-> "corrupt", db |-> << >>]
Doc(db) == [kind |-> "json", db |-> db]

\* load_db: a missing or undecodable document loads as the empty dict.
load_db(doc) ==
    IF doc.kind = "nofile" THEN << >>
    ELSE IF doc.kind = "corrupt" THEN << >>
    ELSE doc.db

\* save_db, completed: the whole dict replaces the document.
save_db(db) == Doc(db)

\* `address in db`
HasAddress(db, a) == \E i \in 1..Len(db) : db[i].address = a

\* index of the entry db[address]
IndexOf(db, a) == CHOOSE i \in 1..Len(db) : db[i].address = a

\* db[address].get("challenge_queue", [])
QueueOf(db, a) == db[IndexOf(db, a)].challenge_queue

\* db.keys()
Keys(db) == [i \in 1..Len(db) |-> db[i].address]

KeySet(db) == {db[i].address : i \in 1..Len(db)}

\* db[address]["challenge_queue"] = q
SetQueue(db, a, q) ==
    [i \in 1..Len(db) |->
        IF db[i].address = a THEN [db[i] EXCEPT !.challenge_queue = q] ELSE db[i]]

\* ------------------------------------------------------------- list.sort
\* Insert r after every record whose key is <= r's key (stable).
RECURSIVE InsertSorted(_, _)
InsertSorted(r, s) ==
    IF s = << >> THEN <<r>>
    ELSE IF Head(s).challengeId <= r.challengeId
         THEN <<Head(s)>> \o InsertSorted(r, Tail(s))
         ELSE <<r>> \o s

\* queue.sort(key=lambda c: c["challengeId"]): a stable ascending sort.
RECURSIVE SortById(_)
SortById(q) ==
    IF q = << >> THEN << >>
    ELSE InsertSorted(q[Len(q)], SortById(SubSeq(q, 1, Len(q) - 1)))

\* ------------------------------------------------------------- init_db
\* A receipt file: missing, not JSON, or JSON with an address (NoAddr when
\* registration_receipt.walletAddress is absent), a receipt and a queue.
File(a, r, q) == [kind |-> "ok", address |-> a, receipt |-> r, queue |-> q]
MissingFile == [kind |-> "missing", address |-> NoAddr, receipt |-> "r1", queue |-> << >>]
MalformedFile == [kind |-> "malformed", address |-> NoAddr, receipt |-> "r1", queue |-> << >>]

IdsOf(q) == {q[k].challengeId : k \in 1..Len(q)}
LacksId(q) == \E k \in 1..Len(q) : q[k].challengeId = NoId

\* The incoming records the loop of lines 55-58 reaches: all of them, or
\* those before the first one without a challengeId (KeyError at line 56).
Reached(incoming) ==
    IF LacksId(incoming)
    THEN SubSeq(incoming, 1,
                (CHOOSE k \in 1..Len(incoming) :
                    /\ incoming[k].challengeId = NoId
                    /\ \A m \in 1..(k - 1) : incoming[m].challengeId # NoId) - 1)
    ELSE incoming

\* The loop without the test of line 56: every reached record is appended.
AppendedAll(existing_queue, incoming) == Reached(incoming)

\* Lines 52-58: existing_ids is computed once, before the loop; every reached
\* record whose id is not in it is appended to existing_queue in place.
Appended(existing_queue, incoming) ==
    LET existing_ids == IdsOf(existing_queue)
    IN  SelectSeq(Reached(incoming), LAMBDA c : c.challengeId \notin existing_ids)

\* A merge that lets the incoming records replace the stored ones of the
\* same id (the bug of merging by id with the new content winning).
MergeKnownIncomingWins(db, f) ==
    LET existing_queue == QueueOf(db, f.address)
        incoming_ids == IdsOf(f.queue)
        kept == SelectSeq(existing_queue, LAMBDA c : c.challengeId \notin incoming_ids)
    IN  SetQueue(db, f.address, SortById(kept \o f.queue))

\* Lines 50-65, the known address.  A KeyError (an existing record without
\* an id at line 53, an incoming one at line 56) is caught at line 70; the
\* records appended before it stay in the queue, unsorted.
MergeKnown(db, f) ==
    LET existing_queue == QueueOf(db, f.address)
        added == Appended(existing_queue, f.queue)
    IN  IF LacksId(existing_queue) THEN db
        ELSE IF LacksId(f.queue)
             THEN SetQueue(db, f.address, existing_queue \o added)
        ELSE IF Len(added) > 0
             THEN SetQueue(db, f.address, SortById(existing_queue \o added))
        ELSE db

\* Lines 36-71 for one file.
ImportFile(db, f) ==
    IF f.kind # "ok" THEN db
    ELSE IF f.address = NoAddr THEN db
    ELSE IF ~HasAddress(db, f.address)
         THEN Append(db, [address |-> f.address,
                          registration_receipt |-> f.receipt,
                          challenge_queue |-> f.queue])
    ELSE MergeKnown(db, f)

\* ----------------------------------------------------- fetch_challenges
\* What requests.get(...) and the decoding of its body give for one address.
\*   transport   requests.get raises (ConnectionError, Timeout, ...)
\*   http_error  raise_for_status raises HTTPError
\*   bad_json    response.json() raises: the body is not JSON
\*   no_fields   the JSON lacks "challenge" or one of its fields: KeyError
\*   ok          a challenge with challenge_id id and latest_submission ls
Response(k, id, ls) == [kind |-> k, id |-> id, ls |-> ls]

\* Lines 86-96.
new_challenge(resp) == Rec(resp.id, "available", resp.ls)

\* The scan of lines 101-104 finding nothing: no test for a known id.
RECURSIVE AnyMatchNever(_, _)
AnyMatchNever(queue, id) ==
    IF queue = << >> THEN "absent"
    ELSE IF Head(queue).challengeId = NoId THEN "keyerror"
    ELSE AnyMatchNever(Tail(queue), id)

\* Lines 101-104: any(c["challengeId"] == id for c in queue) stops at the
\* first equal id; a record without the key reached before that raises.
RECURSIVE AnyMatch(_, _)
AnyMatch(queue, id) ==
    IF queue = << >> THEN "absent"
    ELSE IF Head(queue).challengeId = NoId THEN "keyerror"
    ELSE IF Head(queue).challengeId = id THEN "present"
    ELSE AnyMatch(Tail(queue), id)

\* Lines 98-116 with the else of line 115 creating the entry.
MergeFetchedCreates(db, address, resp) ==
    IF ~HasAddress(db, address)
    THEN Append(db, [address |-> address, registration_receipt |-> "r1",
                     challenge_queue |-> <<new_challenge(resp)>>])
    ELSE IF AnyMatch(QueueOf(db, address), resp.id) = "absent"
         THEN SetQueue(db, address,
                       SortById(Append(QueueOf(db, address), new_challenge(resp))))
    ELSE db

\* Lines 105-107 with the queue replaced by the fetched challenge alone.
MergeFetchedReplaces(db, address, resp) ==
    IF ~HasAddress(db, address) THEN db
    ELSE IF AnyMatch(QueueOf(db, address), resp.id) = "absent"
         THEN SetQueue(db, address, <<new_challenge(resp)>>)
    ELSE db

\* Lines 98-116 for a decoded challenge.
MergeFetched(db, address, resp) ==
    IF ~HasAddress(db, address) THEN db
    ELSE IF AnyMatch(QueueOf(db, address), resp.id) = "absent"
         THEN SetQueue(db, address,
                       SortById(Append(QueueOf(db, address), new_challenge(resp))))
    ELSE db

\* Does the body of the for loop (lines 81-119) let an exception escape?
\* requestsJsonError: response.json() raises requests' JSONDecodeError, a
\* RequestException (requests >= 2.27); otherwise it raises a ValueError.
FetchRaises(db, address, resp, requestsJsonError) ==
    \/ resp.kind = "no_fields"
    \/ resp.kind = "bad_json" /\ ~requestsJsonError
    \/ /\ resp.kind = "ok"
       /\ HasAddress(db, address)
       /\ AnyMatch(QueueOf(db, address), resp.id) = "keyerror"

\* ------------------------------------------------------ solve_challenges
\* First entry at or after i whose queue is not empty; Len(db) + 1 if none.
RECURSIVE FirstEntry(_, _)
FirstEntry(db, i) ==
    IF i > Len(db) THEN Len(db) + 1
    ELSE IF Len(db[i].challenge_queue) > 0 THEN i
    ELSE FirstEntry(db, i + 1)

\* The two nested for loops of lines 127-129 as a position (entry, record).
FirstPos(db) == [i |-> FirstEntry(db, 1), j |-> 1]
NextPos(db, ps) ==
    IF ps.j < Len(db[ps.i].challenge_queue)
    THEN [i |-> ps.i, j |-> ps.j + 1]
    ELSE [i |-> FirstEntry(db, ps.i + 1), j |-> 1]
AtEnd(db, ps) == ps.i > Len(db)

RecordAt(db, ps) == db[ps.i].challenge_queue[ps.j]
SetRecord(db, ps, r) ==
    [db EXCEPT ![ps.i].challenge_queue[ps.j] = r]

\* The comparison with the deadline itself counted as expired.
IsExpiredAtDeadline(nowv, latest_submission) == nowv >= latest_submission

\* The comparison turned round: expired while the deadline is ahead.
IsExpiredReversed(nowv, latest_submission) == nowv < latest_submission

\* Line 134: now > latest_submission.
IsExpired(nowv, latest_submission) == nowv > latest_submission

\* Lines 173-185: the record after a successful submission.
Solved(c, nonce, at, sub) ==
    [c EXCEPT !.status = "solved", !.solvedAt = at, !.salt = nonce,
              !.hash = IF sub.kind = "ok_hash" THEN sub.hash ELSE c.hash]

\* ------------------------------------------------------------- inputs
\* Well-formed challenges as the service issues them.
Issued == {Rec(id, "available", Deadline) : id \in Ids}

\* Receipt files.  For address a1: every queue of at most two issued
\* challenges (sorted or not, an id repeated or not), a receipt with other
\* content for a challenge id (already solved) and another registration
\* receipt, and a queue whose second record has no challengeId.  For address
\* a2: one record, well-formed, without a status, or with a latestSubmission
\* that does not parse.  And the three inputs that are skipped.
ReceiptFiles ==
    {File("a1", "r1", << >>)}
    \cup {File("a1", "r1", <<c>>) : c \in Issued}
    \cup {File("a1", "r1", <<c, d>>) : c \in Issued, d \in Issued}
    \cup {File("a1", "r2", <<Rec(1, "solved", Deadline)>>),
          File("a1", "r1", <<Rec(MaxId, "available", Deadline),
                             Rec(NoId, "available", Deadline)>>)}
    \cup {File("a2", "r1", <<c>>) :
            c \in {Rec(1, "available", Deadline), Rec(1, NoStatus, Deadline),
                   Rec(1, "available", BadTime)}}
    \cup {File(NoAddr, "r1", << >>), MissingFile, MalformedFile}

\* A second file of an init command: another receipt of a1, a receipt of a2,
\* or a file that does not exist.
LaterFiles ==
    {File("a1", "r1", <<Rec(MaxId, "available", Deadline)>>),
     File("a2", "r1", <<Rec(1, "available", Deadline)>>),
     MissingFile}

\* init is given one file or two.
FileLists ==
    {<<f>> : f \in ReceiptFiles}
    \cup {<<f, g>> : f \in ReceiptFiles, g \in LaterFiles}

AddressLists ==
    {<<a>> : a \in Addresses} \cup {<<a, b>> : a \in Addresses, b \in Addresses}

Responses ==
    {Response(k, 1, Deadline) :
        k \in {"transport", "http_error", "bad_json", "no_fields"}}
    \cup {Response("ok", id, Deadline) : id \in Ids}

SolverResults ==
    {[kind |-> "ok", nonce |-> n] : n \in Nonces}
    \cup {[kind |-> k, nonce |-> NoSalt] : k \in {"fail", "unexpected"}}

Submissions ==
    {[kind |-> "ok_hash", hash |-> h] : h \in Hashes}
    \cup {[kind |-> k, hash |-> NoHash] :
            k \in {"ok_nohash", "ok_nobody", "transport", "http_error"}}

NoSubmission == [kind |-> "none", hash |-> NoHash]

\* A response whose body is not JSON counted as a failed submission.
SubmissionOkNeedsBody(sub) == sub.kind \in {"ok_hash", "ok_nohash"}

\* Lines 168-169: the post returned and raise_for_status did not raise.
SubmissionOk(sub) == sub.kind \in {"ok_hash", "ok_nohash", "ok_nobody"}

\* -------------------------------------------------------------- state
Procs == {"p1", "p2"}

NoPos == [i |-> 1, j |-> 1]
NoAttempt == [i |-> 0, j |-> 0, solver |-> [kind |-> "none", nonce |-> NoSalt],
              sub |-> NoSubmission]

VARIABLES
    disk,       \* the document challenges.json
    clock,      \* the current time
    ncmds,      \* commands started so far
    pc,         \* per process: where it is in its command
    cmd,        \* per process: the command it runs
    mem,        \* per process: the dict db of the running function
    todo,       \* per process: files or addresses the for loop has left
    pos,        \* per process: position of solve_challenges' loops
    now,        \* per process: solve_challenges' now (line 126)
    loaded,     \* history: the dict as load_db returned it for this pass
    attempted,  \* history: positions the solver was run for in this pass
    last,       \* history: the latest solve attempt of this pass
    failed,     \* history: positions whose attempt failed in this pass
    retry,      \* history: (address, id) whose attempt failed in an earlier pass
    skipped,    \* history: addresses this fetch pass reported as not in the store
    outcome,    \* history: how the last command ended
    lastSaved   \* history: the dict of the last completed save_db

vars == <<disk, clock, ncmds, pc, cmd, mem, todo, pos, now, loaded, attempted,
          last, failed, retry, skipped, outcome, lastSaved>>

Init ==
    /\ disk = NoFile
    /\ clock = 0
    /\ ncmds = 0
    /\ pc = [p \in Procs |-> "idle"]
    /\ cmd = [p \in Procs |-> "none"]
    /\ mem = [p \in Procs |-> << >>]
    /\ todo = [p \in Procs |-> << >>]
    /\ pos = [p \in Procs |-> NoPos]
    /\ now = [p \in Procs |-> 0]
    /\ loaded = [p \in Procs |-> << >>]
    /\ attempted = [p \in Procs |-> {}]
    /\ last = [p \in Procs |-> NoAttempt]
    /\ failed = [p \in Procs |-> {}]
    /\ retry = {}
    /\ skipped = [p \in Procs |-> {}]
    /\ outcome = [p \in Procs |-> "none"]
    /\ lastSaved = << >>

\* A command starts: the process is at the prompt and the budget allows it.
CanStart(p) == pc[p] = "idle" /\ ncmds < MaxCmds

Begin(p, c, at, work) ==
    /\ ncmds' = ncmds + 1
    /\ cmd' = [cmd EXCEPT ![p] = c]
    /\ pc' = [pc EXCEPT ![p] = at]
    /\ todo' = [todo EXCEPT ![p] = work]
    /\ outcome' = [outcome EXCEPT ![p] = "running"]

\* load_db at the top of a pass (lines 34, 79, 125).
Load(p) ==
    /\ mem' = [mem EXCEPT ![p] = load_db(disk)]
    /\ loaded' = [loaded EXCEPT ![p] = load_db(disk)]

\* (address, challengeId) of the record at a position.
KeyAt(db, ps) == <<db[ps.i].address, db[ps.i].challenge_queue[ps.j].challengeId>>

\* The function returns or is left by an exception: its locals are gone.
Return(p, how) ==
    /\ pc' = [pc EXCEPT ![p] = "idle"]
    /\ cmd' = [cmd EXCEPT ![p] = "none"]
    /\ outcome' = [outcome EXCEPT ![p] = how]
    /\ mem' = [mem EXCEPT ![p] = << >>]
    /\ todo' = [todo EXCEPT ![p] = << >>]
    /\ pos' = [pos EXCEPT ![p] = NoPos]
    /\ now' = [now EXCEPT ![p] = 0]
    /\ loaded' = [loaded EXCEPT ![p] = << >>]
    /\ attempted' = [attempted EXCEPT ![p] = {}]
    /\ last' = [last EXCEPT ![p] = NoAttempt]
    /\ failed' = [failed EXCEPT ![p] = {}]
    /\ retry' = retry \cup {KeyAt(mem[p], ps) : ps \in failed[p]}
    /\ skipped' = [skipped EXCEPT ![p] = {}]

\* save_db at the end of a pass (lines 73, 120, 193), then the return.
SaveAndReturn(p) ==
    /\ disk' = save_db(mem[p])
    /\ lastSaved' = mem[p]
    /\ Return(p, "saved")
    /\ UNCHANGED <<clock, ncmds>>

\* An exception leaves the function: the process ends without save_db.
Abort(p) ==
    /\ Return(p, "aborted")
    /\ UNCHANGED <<disk, lastSaved, clock, ncmds>>

\* --------------------------------------------------------------- init
\* main, lines 216-217, and init_db, lines 33-34.
InitDbStart(p, files) ==
    /\ CanStart(p)
    /\ Begin(p, "init", "init", files)
    /\ Load(p)
    /\ UNCHANGED <<disk, clock, pos, now, attempted, last, failed, retry, skipped, lastSaved>>

\* One iteration of the for loop of lines 35-71.
InitDbFile(p) ==
    /\ pc[p] = "init"
    /\ todo[p] # << >>
    /\ mem' = [mem EXCEPT ![p] = ImportFile(mem[p], Head(todo[p]))]
    /\ todo' = [todo EXCEPT ![p] = Tail(todo[p])]
    /\ UNCHANGED <<disk, clock, ncmds, pc, cmd, pos, now, loaded, attempted,
                   last, failed, retry, skipped, outcome, lastSaved>>

\* Lines 73-74.
InitDbSave(p) ==
    /\ pc[p] = "init"
    /\ todo[p] = << >>
    /\ SaveAndReturn(p)

\* --------------------------------------------------------------- main
\* A test that lets every store pass.
NotInitializedNever(db) == FALSE

\* Lines 220 and 227: `not db`, true of the empty dict.
NotInitialized(db) == db = << >>

\* Lines 218-222 and 225-229: fetch or solve on an empty store is refused.
MainRejected(p, c) ==
    /\ CanStart(p)
    /\ NotInitialized(load_db(disk))
    /\ c \in {"fetch", "solve"}
    /\ ncmds' = ncmds + 1
    /\ outcome' = [outcome EXCEPT ![p] = "rejected"]
    /\ UNCHANGED <<disk, clock, pc, cmd, mem, todo, pos, now, loaded, attempted,
                   last, failed, retry, skipped, lastSaved>>

\* Lines 218-224: main calls fetch_challenges with the keys of the store.
MainFetch(p) ==
    /\ CanStart(p)
    /\ ~NotInitialized(load_db(disk))
    /\ Begin(p, "fetch", "fetch_call", Keys(load_db(disk)))
    /\ UNCHANGED <<disk, clock, mem, pos, now, loaded, attempted, last, failed, retry, skipped,
                   lastSaved>>

\* Lines 225-230: main calls solve_challenges.
MainSolve(p) ==
    /\ CanStart(p)
    /\ ~NotInitialized(load_db(disk))
    /\ Begin(p, "solve", "solve_call", << >>)
    /\ UNCHANGED <<disk, clock, mem, pos, now, loaded, attempted, last, failed, retry, skipped,
                   lastSaved>>

\* -------------------------------------------------------------- fetch
\* fetch_challenges(addresses) called with a list of the caller's choice
\* (line 77): the addresses need not be keys of the store.
FetchChallengesCall(p, addresses) ==
    /\ CanStart(p)
    /\ Begin(p, "fetch", "fetch_call", addresses)
    /\ UNCHANGED <<disk, clock, mem, pos, now, loaded, attempted, last, failed, retry, skipped,
                   lastSaved>>

\* Lines 78-79.
FetchLoad(p) ==
    /\ pc[p] = "fetch_call"
    /\ Load(p)
    /\ pc' = [pc EXCEPT ![p] = "fetch"]
    /\ UNCHANGED <<disk, clock, ncmds, cmd, todo, pos, now, attempted, last, failed, retry, skipped,
                   outcome, lastSaved>>

\* One iteration of the for loop of lines 80-119 that ends normally: the
\* request failed and was reported, or the challenge was merged.
FetchAddress(p, resp, requestsJsonError) ==
    /\ pc[p] = "fetch"
    /\ todo[p] # << >>
    /\ ~FetchRaises(mem[p], Head(todo[p]), resp, requestsJsonError)
    /\ mem' = [mem EXCEPT ![p] =
                 IF resp.kind = "ok"
                 THEN MergeFetched(mem[p], Head(todo[p]), resp)
                 ELSE mem[p]]
    /\ todo' = [todo EXCEPT ![p] = Tail(todo[p])]
    /\ skipped' = [skipped EXCEPT ![p] =
                     IF resp.kind = "ok" /\ ~HasAddress(mem[p], Head(todo[p]))
                     THEN @ \cup {Head(todo[p])} ELSE @]
    /\ UNCHANGED <<disk, clock, ncmds, pc, cmd, pos, now, loaded, attempted,
                   last, failed, retry, outcome, lastSaved>>

\* An iteration whose exception is no RequestException: it leaves
\* fetch_challenges, and line 120 is not reached.
FetchAddressRaises(p, resp, requestsJsonError) ==
    /\ pc[p] = "fetch"
    /\ todo[p] # << >>
    /\ FetchRaises(mem[p], Head(todo[p]), resp, requestsJsonError)
    /\ Abort(p)

\* Line 120.
FetchSave(p) ==
    /\ pc[p] = "fetch"
    /\ todo[p] = << >>
    /\ SaveAndReturn(p)

\* -------------------------------------------------------------- solve
\* Lines 124-126.
SolveLoad(p) ==
    /\ pc[p] = "solve_call"
    /\ Load(p)
    /\ now' = [now EXCEPT ![p] = clock]
    /\ pos' = [pos EXCEPT ![p] = FirstPos(load_db(disk))]
    /\ pc' = [pc EXCEPT ![p] = "solve"]
    /\ UNCHANGED <<disk, clock, ncmds, cmd, todo, attempted, last, failed, retry, skipped, outcome,
                   lastSaved>>

AtRecord(p) == pc[p] = "solve" /\ ~AtEnd(mem[p], pos[p])

Advance(p) == pos' = [pos EXCEPT ![p] = NextPos(mem[p], pos[p])]

\* Line 130 is false: the record is not available.
SolveSkip(p) ==
    /\ AtRecord(p)
    /\ RecordAt(mem[p], pos[p]).status \notin {"available", NoStatus}
    /\ Advance(p)
    /\ UNCHANGED <<disk, clock, ncmds, pc, cmd, mem, todo, now, loaded,
                   attempted, last, failed, retry, skipped, outcome, lastSaved>>

\* Lines 130-133 raise outside the try of line 144: KeyError for a record
\* without "status", ValueError or TypeError for a latestSubmission that is
\* no aware ISO time.  The exception leaves solve_challenges.
SolveRaises(p) ==
    /\ AtRecord(p)
    /\ LET c == RecordAt(mem[p], pos[p])
       IN  \/ c.status = NoStatus
           \/ c.status = "available" /\ c.latestSubmission = BadTime
    /\ Abort(p)

\* Lines 134-139.
SolveExpire(p) ==
    /\ AtRecord(p)
    /\ LET c == RecordAt(mem[p], pos[p])
       IN  /\ c.status = "available"
           /\ c.latestSubmission # BadTime
           /\ IsExpired(now[p], c.latestSubmission)
           /\ mem' = [mem EXCEPT ![p] =
                        SetRecord(mem[p], pos[p], [c EXCEPT !.status = "expired"])]
    /\ Advance(p)
    /\ UNCHANGED <<disk, clock, ncmds, pc, cmd, todo, now, loaded, attempted,
                   last, failed, retry, skipped, outcome, lastSaved>>

\* Lines 160-169: the post is made only if the solver printed a nonce.
Posted(solver, sub) == IF solver.kind = "ok" THEN sub ELSE NoSubmission

\* The record marked solved as soon as the solver printed a nonce, before
\* the post is known to have succeeded.
AfterAttemptNoConfirm(c, solver, sub, at) ==
    IF solver.kind = "ok"
    THEN Solved(c, solver.nonce, at, Posted(solver, sub))
    ELSE c

\* Lines 141-192: the record after one attempt.  Only a successful post
\* changes it; every exception of the attempt is caught (lines 187-192).
AfterAttempt(c, solver, sub, at) ==
    IF SubmissionOk(Posted(solver, sub))
    THEN Solved(c, solver.nonce, at, Posted(solver, sub))
    ELSE c

SolveAttempt(p, solver, sub) ==
    /\ AtRecord(p)
    /\ LET c == RecordAt(mem[p], pos[p])
       IN  /\ c.status = "available"
           /\ c.latestSubmission # BadTime
           /\ ~IsExpired(now[p], c.latestSubmission)
           /\ mem' = [mem EXCEPT ![p] =
                        SetRecord(mem[p], pos[p],
                                  AfterAttempt(c, solver, sub, clock))]
    /\ attempted' = [attempted EXCEPT ![p] = @ \cup {pos[p]}]
    /\ last' = [last EXCEPT ![p] =
                  [i |-> pos[p].i, j |-> pos[p].j, solver |-> solver,
                   sub |-> Posted(solver, sub)]]
    /\ failed' = [failed EXCEPT ![p] =
                    IF SubmissionOk(Posted(solver, sub)) THEN @
                    ELSE @ \cup {pos[p]}]
    /\ Advance(p)
    /\ UNCHANGED <<disk, clock, ncmds, pc, cmd, todo, now, loaded, retry,
                   skipped, outcome, lastSaved>>

\* Line 193.
SolveSave(p) ==
    /\ pc[p] = "solve"
    /\ AtEnd(mem[p], pos[p])
    /\ SaveAndReturn(p)

\* ---------------------------------------------------------------- time
\* Time passes between commands; a pass is short on the clock's scale.
Tick ==
    /\ \A p \in Procs : pc[p] = "idle"
    /\ clock < MaxTime
    /\ clock' = clock + 1
    /\ UNCHANGED <<disk, ncmds, pc, cmd, mem, todo, pos, now, loaded, attempted,
                   last, failed, retry, skipped, outcome, lastSaved>>

\* ------------------------------------------------------ specifications
Step(p) ==
    \/ \E files \in FileLists : InitDbStart(p, files)
    \/ InitDbFile(p)
    \/ InitDbSave(p)
    \/ \E c \in {"fetch", "solve"} : MainRejected(p, c)
    \/ MainFetch(p)
    \/ MainSolve(p)
    \/ \E addresses \in AddressLists : FetchChallengesCall(p, addresses)
    \/ FetchLoad(p)
    \/ \E resp \in Responses, rje \in BOOLEAN : FetchAddress(p, resp, rje)
    \/ \E resp \in Responses, rje \in BOOLEAN : FetchAddressRaises(p, resp, rje)
    \/ FetchSave(p)
    \/ SolveLoad(p)
    \/ SolveSkip(p)
    \/ SolveRaises(p)
    \/ SolveExpire(p)
    \/ \E solver \in SolverResults, sub \in Submissions : SolveAttempt(p, solver, sub)
    \/ SolveSave(p)

\* One command at a time, each run to completion.
Next == Step("p1") \/ Tick

Spec == Init /\ [][Next]_vars

\* save_db (lines 14-16) opens the document for writing, which empties it,
\* and then writes the JSON text piece by piece.  A process that is killed,
\* or a write that fails, between the two leaves a document that is empty or
\* cut short: it is not JSON.
SaveInterrupted(p) ==
    /\ \/ pc[p] \in {"init", "fetch"} /\ todo[p] = << >>
       \/ pc[p] = "solve" /\ AtEnd(mem[p], pos[p])
    /\ disk' = Corrupt
    /\ Return(p, "interrupted")
    /\ UNCHANGED <<clock, ncmds, lastSaved>>

\* Commands one at a time, any of which may be interrupted in its save_db.
NextCrash == Next \/ SaveInterrupted("p1")

SpecCrash == Init /\ [][NextCrash]_vars

\* requests.get (line 82), subprocess.run (lines 160-162) and requests.post
\* (line 168) are called without a timeout argument: requests then waits
\* for the server without limit, and subprocess.run waits for the child to
\* exit.  A server that accepts the connection and never answers, or a
\* solver that never exits, leaves the process inside the call.
Blocked == {"blocked_get", "blocked_solver", "blocked_post"}

BlockIn(p, call) ==
    /\ pc' = [pc EXCEPT ![p] = call]
    /\ UNCHANGED <<disk, clock, ncmds, cmd, mem, todo, pos, now, loaded, attempted,
                   last, failed, retry, skipped, outcome, lastSaved>>

\* Line 82 with a server that never answers.
RequestHangs(p) ==
    /\ pc[p] = "fetch"
    /\ todo[p] # << >>
    /\ BlockIn(p, "blocked_get")

\* Lines 160-162 with a solver that never exits, or line 168 (after the
\* solver printed a nonce) with a server that never answers.
AttemptHangs(p, call) ==
    /\ AtRecord(p)
    /\ LET c == RecordAt(mem[p], pos[p])
       IN  /\ c.status = "available"
           /\ c.latestSubmission # BadTime
           /\ ~IsExpired(now[p], c.latestSubmission)
    /\ call \in {"blocked_solver", "blocked_post"}
    /\ BlockIn(p, call)

\* What a process can do next, calls that never return included.
StepHang(p) ==
    \/ Step(p)
    \/ RequestHangs(p)
    \/ \E call \in Blocked : AttemptHangs(p, call)

\* Commands one at a time, with external calls that may never return.
NextHang == StepHang("p1") \/ Tick

SpecHang == Init /\ [][NextHang]_vars

\* Two processes of the program at the same store: nothing in main.py
\* (no lock, no check of the document between load_db and save_db) keeps a
\* second command from starting while the first is in its pass.  Each step
\* of a pass is taken by one process; the receipts of an import are here
\* one file for a1 and one for a2 (with a record without "status").
OverlapFileLists ==
    {<<File("a1", "r1", <<Rec(1, "available", Deadline)>>)>>,
     <<File("a2", "r1", <<Rec(1, NoStatus, Deadline)>>)>>}

StepOverlap(p) ==
    \/ \E files \in OverlapFileLists : InitDbStart(p, files)
    \/ InitDbFile(p)
    \/ InitDbSave(p)
    \/ \E c \in {"fetch", "solve"} : MainRejected(p, c)
    \/ MainFetch(p)
    \/ MainSolve(p)
    \/ FetchLoad(p)
    \/ \E resp \in Responses, rje \in BOOLEAN : FetchAddress(p, resp, rje)
    \/ \E resp \in Responses, rje \in BOOLEAN : FetchAddressRaises(p, resp, rje)
    \/ FetchSave(p)
    \/ SolveLoad(p)
    \/ SolveSkip(p)
    \/ SolveRaises(p)
    \/ SolveExpire(p)
    \/ \E solver \in SolverResults, sub \in Submissions : SolveAttempt(p, solver, sub)
    \/ SolveSave(p)

NextOverlap == StepOverlap("p1") \/ StepOverlap("p2") \/ Tick

SpecOverlap == Init /\ [][NextOverlap]_vars

\* The solve command run again and again: after the commands counted by
\* ncmds, solve may be started any number of times (lines 225-230).
SolveAgain(p) ==
    /\ pc[p] = "idle"
    /\ ~NotInitialized(load_db(disk))
    /\ cmd' = [cmd EXCEPT ![p] = "solve"]
    /\ pc' = [pc EXCEPT ![p] = "solve_call"]
    /\ todo' = [todo EXCEPT ![p] = << >>]
    /\ outcome' = [outcome EXCEPT ![p] = "running"]
    /\ UNCHANGED <<disk, clock, ncmds, mem, pos, now, loaded, attempted, last,
                   failed, retry, skipped, lastSaved>>

\* The receipts of the imports that come before: two challenges of a1, and
\* a challenge of a2 whose latestSubmission does not parse.
LiveFileLists ==
    {<<File("a1", "r1", <<Rec(1, "available", Deadline),
                          Rec(MaxId, "available", Deadline)>>)>>,
     <<File("a2", "r1", <<Rec(1, "available", BadTime)>>)>>}

\* A command starts.
StartLive(p) ==
    \/ \E files \in LiveFileLists : InitDbStart(p, files)
    \/ \E c \in {"fetch", "solve"} : MainRejected(p, c)
    \/ MainFetch(p)
    \/ MainSolve(p)

\* The running command takes its next step.
PassStep(p) ==
    \/ InitDbFile(p)
    \/ InitDbSave(p)
    \/ FetchLoad(p)
    \/ \E resp \in Responses, rje \in BOOLEAN : FetchAddress(p, resp, rje)
    \/ \E resp \in Responses, rje \in BOOLEAN : FetchAddressRaises(p, resp, rje)
    \/ FetchSave(p)
    \/ SolveLoad(p)
    \/ SolveSkip(p)
    \/ SolveRaises(p)
    \/ SolveExpire(p)
    \/ \E solver \in SolverResults, sub \in Submissions : SolveAttempt(p, solver, sub)
    \/ SolveSave(p)

NextLive == StartLive("p1") \/ PassStep("p1") \/ SolveAgain("p1") \/ Tick

\* A started command keeps running (the calls it makes return), solve is
\* run again whenever the prompt is back, and time goes on.
SpecLive ==
    /\ Init
    /\ [][NextLive]_vars
    /\ WF_vars(PassStep("p1"))
    /\ WF_vars(SolveAgain("p1"))
    /\ SF_vars(Tick)

\* ================================================================ claims
P == "p1"

\* The dict a load_db would return now.
Store == load_db(disk)

\* The statuses, in queue order, of the records of address a with id id.
StatusesOf(db, a, id) ==
    IF ~HasAddress(db, a) THEN << >>
    ELSE LET same == SelectSeq(QueueOf(db, a), LAMBDA c : c.challengeId = id)
         IN  [k \in 1..Len(same) |-> same[k].status]

Forward(old, new) ==
    \/ new = old
    \/ old = "available" /\ new \in {"expired", "solved"}

\* C1: over any sequence of completed import, fetch and solve commands, the
\* status of every record (address, challengeId) of the persisted store
\* stays as it is or goes from available to expired or to solved; the
\* record stays in the store.
C1_StatusOnlyForward ==
    [][disk' # disk => \A a \in Addresses, id \in Ids :
         LET old == StatusesOf(load_db(disk), a, id)
             new == StatusesOf(load_db(disk'), a, id)
         IN  Len(old) > 0 =>
               /\ Len(new) = Len(old)
               /\ \A k \in 1..Len(old) : Forward(old[k], new[k])]_vars

\* An import that adds a record is at its save_db, over a store that holds
\* a record an earlier solve pass solved.
C1_Witness ==
    /\ pc[P] = "init" /\ todo[P] = << >> /\ mem[P] # loaded[P]
    /\ \E i \in 1..Len(Store) : \E k \in 1..Len(Store[i].challenge_queue) :
          /\ Store[i].challenge_queue[k].status = "solved"
          /\ Store[i].challenge_queue[k].salt # NoSalt
          /\ Len(mem[P][i].challenge_queue) > Len(Store[i].challenge_queue)

\* The dict a pass is about to write: its loop is over, save_db is next.
AtSave(p, c) ==
    /\ cmd[p] = c
    /\ \/ pc[p] \in {"init", "fetch"} /\ todo[p] = << >>
       \/ pc[p] = "solve" /\ AtEnd(mem[p], pos[p])

\* Ascending by challengeId with no id twice.
SortedUnique(q) ==
    \A k \in 1..(Len(q) - 1) : q[k].challengeId < q[k + 1].challengeId

\* C2: the store an import or a fetch saves has every queue in ascending
\* challengeId order, with no challengeId twice, whatever the receipts were.
C2_SortedUnique ==
    (AtSave(P, "init") \/ AtSave(P, "fetch")) =>
        \A i \in 1..Len(mem[P]) : SortedUnique(mem[P][i].challenge_queue)

\* C3: importing a receipt file twice in a row leaves the store as importing
\* it once does, for every store the commands can produce and every file.
InitDbOf(doc, f) == save_db(ImportFile(load_db(doc), f))

C3_ImportIdempotent ==
    \A f \in ReceiptFiles : InitDbOf(InitDbOf(disk, f), f) = InitDbOf(disk, f)

\* The store holds an address for which some file brings new records: the
\* first import of the file changes the queue, the second finds them there.
C3_Witness ==
    \E f \in ReceiptFiles :
        /\ f.kind = "ok" /\ HasAddress(Store, f.address)
        /\ Len(QueueOf(load_db(InitDbOf(disk, f)), f.address))
              > Len(QueueOf(Store, f.address))

\* Positions of the records of a dict, and the loops' order on them.
Positions(db) ==
    UNION {{[i |-> i, j |-> j] : j \in 1..Len(db[i].challenge_queue)} :
             i \in 1..Len(db)}
Before(a, b) == a.i < b.i \/ (a.i = b.i /\ a.j < b.j)

\* The records the running solve pass has dealt with.
Handled(p) == {ps \in Positions(loaded[p]) : Before(ps, pos[p])}

\* C4: a solve pass sets a record that was available with latestSubmission
\* strictly before now to expired, changes nothing else of it (no salt, no
\* solvedAt) and runs neither solver nor submission for it; a record with
\* now at or before latestSubmission is not expired and the solver is run.
C4_ExpiryPrecedence ==
    pc[P] = "solve" =>
      \A ps \in Handled(P) :
        LET c0 == RecordAt(loaded[P], ps)
            c == RecordAt(mem[P], ps)
        IN  c0.status = "available" =>
              IF c0.latestSubmission < now[P]
              THEN /\ c = [c0 EXCEPT !.status = "expired"]
                   /\ c.salt = NoSalt /\ c.solvedAt = NoTime
                   /\ ps \notin attempted[P]
                   /\ ~(last[P].i = ps.i /\ last[P].j = ps.j)
              ELSE /\ c.status # "expired"
                   /\ ps \in attempted[P]

\* A solve pass is at its save_db having expired a record.
C4_Witness ==
    /\ AtSave(P, "solve")
    /\ \E ps \in Handled(P) :
          /\ RecordAt(loaded[P], ps).status = "available"
          /\ RecordAt(loaded[P], ps).latestSubmission < now[P]
          /\ RecordAt(mem[P], ps).status = "expired"

\* The attempt failed: the solver did, or the post of its nonce did.
AttemptFailed(a) ==
    \/ a.solver.kind \in {"fail", "unexpected"}
    \/ a.solver.kind = "ok" /\ a.sub.kind \in {"transport", "http_error"}

\* C5: a record whose attempt failed (solver failure, or submission
\* failure after the solver succeeded) is as it was loaded for the rest of
\* the pass: available, without salt, solvedAt or hash; and a later solve
\* pass that comes to it before its deadline runs the solver for it again.
C5_FailureKeepsAvailable ==
    pc[P] = "solve" =>
      /\ AttemptFailed(last[P]) => [i |-> last[P].i, j |-> last[P].j] \in failed[P]
      /\ \A ps \in failed[P] :
            LET c == RecordAt(mem[P], ps)
            IN  /\ c = RecordAt(loaded[P], ps)
                /\ c.status = "available"
                /\ c.salt = NoSalt /\ c.solvedAt = NoTime /\ c.hash = NoHash
      /\ \A ps \in Handled(P) :
            LET c0 == RecordAt(loaded[P], ps)
            IN  (/\ KeyAt(loaded[P], ps) \in retry
                 /\ c0.status = "available"
                 /\ c0.latestSubmission >= now[P]) => ps \in attempted[P]

\* A pass has run the solver again for a record whose attempt failed in an
\* earlier pass, after the solver succeeded and the post failed in this one.
C5_Witness ==
    /\ pc[P] = "solve"
    /\ last[P].solver.kind = "ok" /\ last[P].sub.kind = "transport"
    /\ \E ps \in attempted[P] :
          /\ KeyAt(loaded[P], ps) \in retry
          /\ ps \in failed[P]

\* C6: fetch and solve leave the addresses of the store as they are: a
\* fetch for an address that is not in the store creates no entry, neither
\* in the dict in memory nor in the saved document.
C6_KeysOnlyByImport ==
    [][cmd[P] \in {"fetch", "solve"} =>
         /\ Keys(load_db(disk')) = Keys(load_db(disk))
         /\ pc'[P] \in {"fetch", "solve"} => Keys(mem'[P]) = Keys(load_db(disk))
         /\ skipped'[P] \cap KeySet(load_db(disk')) = {}]_vars

\* A fetch pass over a store with an entry is at its save_db after it
\* reported an address as not in the store.
C6_Witness ==
    /\ AtSave(P, "fetch")
    /\ skipped[P] # {}
    /\ mem[P] # << >>

\* Ascending by challengeId.
Sorted(q) ==
    \A k \in 1..(Len(q) - 1) : q[k].challengeId <= q[k + 1].challengeId

CountId(q, id) == Len(SelectSeq(q, LAMBDA c : c.challengeId = id))

\* C7: for the address a fetch pass is at and every challenge the endpoint
\* may return: if the id is in the address's queue the store is unchanged;
\* if it is not, the queue gets exactly one record more, that challenge
\* with status available, keeps every record it had and is sorted by
\* challengeId, and the other entries are unchanged; a second fetch with
\* the same response changes nothing.
C7_FetchIdempotent ==
    (pc[P] = "fetch" /\ todo[P] # << >> /\ HasAddress(mem[P], Head(todo[P]))) =>
      \A resp \in Responses :
        LET a == Head(todo[P])
            q == QueueOf(mem[P], a)
            after == MergeFetched(mem[P], a, resp)
            qa == QueueOf(after, a)
        IN  (resp.kind = "ok" /\ ~FetchRaises(mem[P], a, resp, TRUE)) =>
              /\ resp.id \in IdsOf(q) => after = mem[P]
              /\ resp.id \notin IdsOf(q) =>
                    /\ Len(qa) = Len(q) + 1
                    /\ CountId(qa, resp.id) = 1
                    /\ \E k \in 1..Len(qa) : qa[k] = Rec(resp.id, "available", resp.ls)
                    /\ \A c \in {q[k] : k \in 1..Len(q)} :
                          CountId(qa, c.challengeId) = CountId(q, c.challengeId)
                    /\ \A k \in 1..Len(q) : \E m \in 1..Len(qa) : qa[m] = q[k]
                    /\ Sorted(qa)
                    /\ \A i \in 1..Len(after) :
                          after[i].address # a => after[i] = mem[P][i]
                    /\ Keys(after) = Keys(mem[P])
              /\ MergeFetched(after, a, resp) = after

\* A fetch pass is at its save_db after it added a record to a queue that
\* had records.
C7_Witness ==
    /\ AtSave(P, "fetch")
    /\ \E i \in 1..Len(mem[P]) :
          /\ Len(loaded[P][i].challenge_queue) > 0
          /\ Len(mem[P][i].challenge_queue) > Len(loaded[P][i].challenge_queue)

\* C8: the document is never cut short: whatever happens during save_db,
\* the document loads as the dict of the last save_db that completed.
C8_DocumentIsLastSave == load_db(disk) = lastSaved

\* C9: a fetch pass ends only after it has handled every address, and by
\* saving the dict it built, whatever the requests returned.
C9_FetchPassCompletes ==
    [][(pc[P] = "fetch" /\ pc'[P] # "fetch") =>
         /\ todo[P] = << >>
         /\ disk' = save_db(mem[P])]_vars

\* C10: a solve pass ends only after it has handled every record of every
\* queue, and by saving the dict it built, whatever the records hold.
C10_SolvePassCompletes ==
    [][(pc[P] = "solve" /\ pc'[P] # "solve") =>
         /\ AtEnd(mem[P], pos[P])
         /\ disk' = save_db(mem[P])]_vars

\* main run with the command c (lines 216-230)
MainCommand(p, c) ==
    \/ MainRejected(p, c)
    \/ c = "fetch" /\ MainFetch(p)
    \/ c = "solve" /\ MainSolve(p)

\* C11: the fetch or the solve command run while the document loads as the
\* empty dict ends at once as "not initialized": the process is back at the
\* prompt, so no request and no solver run follows, the document is as it
\* was and nothing was saved.
C11_RejectedWhenEmpty ==
    [][\A c \in {"fetch", "solve"} :
         (load_db(disk) = << >> /\ MainCommand(P, c)) =>
            /\ outcome'[P] = "rejected"
            /\ pc'[P] = "idle"
            /\ UNCHANGED <<disk, lastSaved, mem, attempted, last, skipped>>]_vars

\* A command was refused over a document that exists and holds the empty
\* dict (an import of a file that does not exist saved it).
C11_Witness ==
    /\ outcome[P] = "rejected"
    /\ disk.kind = "json"
    /\ lastSaved = << >>

\* The loop of the running pass is over: every file, address or record of
\* the pass has been handled.
LoopDone(p) ==
    \/ pc[p] \in {"init", "fetch"} /\ todo[p] = << >>
    \/ pc[p] = "solve" /\ AtEnd(mem[p], pos[p])

\* C12: every accepted run of import, fetch or solve saves the store once,
\* after the whole pass: a pass ends only with its loop over and by saving
\* its dict, and the document is written at no other step.
C12_SaveOnceAtEnd ==
    [][/\ (pc[P] # "idle" /\ pc'[P] = "idle") =>
            /\ LoopDone(P)
            /\ disk' = save_db(mem[P])
            /\ lastSaved' = mem[P]
       /\ (disk' # disk \/ lastSaved' # lastSaved) =>
            (pc[P] # "idle" /\ pc'[P] = "idle")]_vars

\* C13: no pass is suspended for ever: a pass that has started can always
\* go on (to the next item or to its save_db), also when the solver or a
\* request hangs, because a hung call is given up after a bounded time.
C13_NoIndefiniteSuspension ==
    pc[P] # "idle" => ENABLED StepHang(P)

\* The records, in queue order, of address a with challengeId id.
RecordsOf(db, a, id) ==
    IF ~HasAddress(db, a) THEN << >>
    ELSE SelectSeq(QueueOf(db, a), LAMBDA c : c.challengeId = id)

\* C14: a record once persisted is never deleted and only solve changes it:
\* whenever a command completes its save_db, every (address, challengeId)
\* of the store persisted before it is in the store persisted now, and
\* after an import or a fetch with every field as it was; this also when a
\* command found a document that cannot be parsed.
C14_RecordsNeverDeleted ==
    [][lastSaved' # lastSaved =>
         \A a \in Addresses, id \in Ids :
            LET old == RecordsOf(lastSaved, a, id)
                new == RecordsOf(lastSaved', a, id)
            IN  Len(old) > 0 =>
                  /\ Len(new) = Len(old)
                  /\ cmd[P] \in {"init", "fetch"} => new = old]_vars

\* The entry db[a].
EntryOf(db, a) == db[IndexOf(db, a)]

\* C15: an import of a receipt for an address the store has keeps the
\* address's registration receipt and every record of its queue as they
\* are, whatever the incoming receipt and records hold, and adds only
\* records whose challengeId the queue does not have yet: afterwards each
\* id that was not in the queue is there at most once.
C15_ImportKeepsExisting ==
    pc[P] = "init" =>
      \A f \in ReceiptFiles :
        (f.kind = "ok" /\ f.address # NoAddr /\ HasAddress(mem[P], f.address)) =>
          LET a == f.address
              q == QueueOf(mem[P], a)
              after == ImportFile(mem[P], f)
              qa == QueueOf(after, a)
          IN  /\ Keys(after) = Keys(mem[P])
              /\ EntryOf(after, a).registration_receipt
                    = EntryOf(mem[P], a).registration_receipt
              /\ \A id \in IdsOf(q) : RecordsOf(after, a, id) = RecordsOf(mem[P], a, id)
              /\ \A id \in IdsOf(qa) \ IdsOf(q) :
                    /\ Len(RecordsOf(after, a, id)) = 1
                    /\ \E k \in 1..Len(f.queue) : f.queue[k] = RecordsOf(after, a, id)[1]

\* init_db reports the input as failed: "File not found" (line 37), "Error
\* decoding JSON" (line 69), "Could not find address" (line 67) or "An
\* unexpected error occurred" (line 71, here the KeyError of lines 53, 56).
ReportedFailed(db, f) ==
    \/ f.kind \in {"missing", "malformed"}
    \/ f.kind = "ok" /\ f.address = NoAddr
    \/ /\ f.kind = "ok" /\ f.address # NoAddr /\ HasAddress(db, f.address)
       /\ LacksId(QueueOf(db, f.address)) \/ LacksId(f.queue)

\* C16: an input of an import that is reported as failed is skipped as a
\* whole: the dict is after it exactly as before it.
C16_FailedInputSkipped ==
    pc[P] = "init" =>
      \A f \in ReceiptFiles :
        ReportedFailed(mem[P], f) => ImportFile(mem[P], f) = mem[P]

\* The position of the latest attempt of the pass.
LastPos(p) == [i |-> last[p].i, j |-> last[p].j]

\* C17: when the solver printed a nonce and the submission was accepted,
\* the record is for the rest of the pass solved, with the nonce as salt and
\* solvedAt set; it has a hash exactly when the response carried one, that
\* hash; a response without hash or without JSON body still gives solved.
C17_SolvedRecord ==
    pc[P] = "solve" =>
      /\ (/\ last[P].solver.kind = "ok"
          /\ last[P].sub.kind \in {"ok_hash", "ok_nohash", "ok_nobody"}) =>
            LET c == RecordAt(mem[P], LastPos(P))
                c0 == RecordAt(loaded[P], LastPos(P))
            IN  /\ c0.status = "available" /\ c0.latestSubmission >= now[P]
                /\ c.status = "solved"
                /\ c.salt = last[P].solver.nonce
                /\ c.solvedAt # NoTime /\ c.solvedAt >= now[P]
                /\ c.hash # NoHash <=> last[P].sub.kind = "ok_hash"
                /\ last[P].sub.kind = "ok_hash" => c.hash = last[P].sub.hash
                /\ LastPos(P) \in attempted[P] \ failed[P]
      /\ \A ps \in attempted[P] \ failed[P] :
            LET c == RecordAt(mem[P], ps)
                c0 == RecordAt(loaded[P], ps)
            IN  /\ c.status = "solved"
                /\ c.salt \in Nonces
                /\ c.solvedAt # NoTime /\ c.solvedAt >= now[P]
                /\ c.challengeId = c0.challengeId
                /\ c.latestSubmission = c0.latestSubmission

\* A solve pass is at its save_db with two records solved, the latest by a
\* submission whose response had no JSON body.
C17_Witness ==
    /\ AtSave(P, "solve")
    /\ last[P].solver.kind = "ok" /\ last[P].sub.kind = "ok_nobody"
    /\ Cardinality(attempted[P] \ failed[P]) >= 2
    /\ RecordAt(mem[P], LastPos(P)).hash = NoHash
    /\ \E ps \in attempted[P] : RecordAt(mem[P], ps).hash # NoHash

\* C18: when a solve pass ends, every record whose submission succeeded in
\* it is in the persisted store as solved with its salt, whatever happened
\* at the later records of the pass.
C18_SuccessPersisted ==
    [][(pc[P] = "solve" /\ pc'[P] = "idle") =>
         \A ps \in attempted[P] \ failed[P] :
            LET c == RecordAt(load_db(disk'), ps)
            IN  /\ c.status = "solved"
                /\ c.salt # NoSalt
                /\ c.salt = RecordAt(mem[P], ps).salt]_vars

\* Every record of old is in new, with its status as it was or moved from
\* available to expired or solved, and every address of old is in new.
KeepsForward(old, new) ==
    /\ \A i \in 1..Len(old) : HasAddress(new, old[i].address)
    /\ \A a \in Addresses, id \in Ids :
          LET o == RecordsOf(old, a, id)
              n == RecordsOf(new, a, id)
          IN  /\ Len(n) >= Len(o)
              /\ \A k \in 1..Len(o) : Forward(o[k].status, n[k].status)

\* Process p completes its save_db in this step.
Saves(p) == pc[p] # "idle" /\ pc'[p] = "idle" /\ outcome'[p] = "saved"

\* C19 as stated: when commands overlap, every save leaves in the document
\* what the other command has written: no record and no solved or expired
\* status of the document is lost, no status goes back to available.
C19_OverlapKeepsBoth ==
    [][\A p \in Procs :
         Saves(p) => KeepsForward(load_db(disk), load_db(disk'))]_vars

\* C19 as amended: a command that saves persists the store it loaded with
\* its own effects; it keeps what the document holds when no other command
\* has changed the document since this one loaded it.
C19_LastSaverWins ==
    [][\A p \in Procs :
         Saves(p) =>
            /\ disk' = save_db(mem[p])
            /\ KeepsForward(loaded[p], load_db(disk'))
            /\ load_db(disk) = loaded[p] =>
                  KeepsForward(load_db(disk), load_db(disk'))]_vars

\* A fetch pass that added a record is at its save_db while a solve pass
\* of the other process, which loaded the same document, has solved a
\* record and not saved yet.
C19_Witness ==
    /\ AtSave("p1", "fetch") /\ mem["p1"] # loaded["p1"]
    /\ load_db(disk) = loaded["p1"]
    /\ pc["p2"] = "solve" /\ loaded["p2"] = loaded["p1"]
    /\ attempted["p2"] \ failed["p2"] # {}

\* The persisted store has a record (a, id) that is available.
AvailableIn(db, a, id) ==
    \E k \in 1..Len(RecordsOf(db, a, id)) : RecordsOf(db, a, id)[k].status = "available"

\* C20: with solve run again and again, passes that complete and time
\* going on, every available record of the persisted store becomes solved
\* or expired; and a pass that completes leaves no record available whose
\* latestSubmission was before the pass started.
C20_EventuallySettled ==
    /\ [][(pc[P] = "solve" /\ pc'[P] = "idle" /\ outcome'[P] = "saved") =>
            \A a \in Addresses, id \in Ids :
               \A k \in 1..Len(RecordsOf(load_db(disk'), a, id)) :
                  LET c == RecordsOf(load_db(disk'), a, id)[k]
                  IN  c.status = "available" => c.latestSubmission >= now[P]]_vars
    /\ \A a \in Addresses, id \in Ids :
          []<>(outcome[P] = "saved") =>
             (AvailableIn(Store, a, id) ~> ~AvailableIn(Store, a, id))

\* A solve pass started after the deadline is at its save_db: a record
\* whose attempt failed in an earlier pass, still available in the
\* document, is expired in the dict about to be saved.
C20_Witness ==
    /\ AtSave(P, "solve")
    /\ now[P] > Deadline
    /\ \E ps \in Positions(loaded[P]) :
          /\ KeyAt(loaded[P], ps) \in retry
          /\ RecordAt(loaded[P], ps).status = "available"
          /\ AvailableIn(Store, KeyAt(loaded[P], ps)[1], KeyAt(loaded[P], ps)[2])
          /\ RecordAt(mem[P], ps).status = "expired"

====
